---- MODULE Spec2Model ----
(***************************************************************************)
(* A model of omegabot's "post" slash commands (src/bot.py): the text      *)
(* normalizer _multiline, the mention and button helpers, send_embed and   *)
(* the announce / update handlers with their await points.                 *)
(*                                                                         *)
(* Python str values are TLA+ strings; Len, SubSeq and \o act on them as   *)
(* len(), slicing and +.  Python's None is the value None below.           *)
(***************************************************************************)
EXTENDS Integers, Sequences, FiniteSets, TLC

VARIABLES
    channels,   \* client channel cache: channel id -> "text", "voice" or None
    guild,      \* interaction.guild: [roles |-> sequence of Role records]
    pc,         \* per interaction: position of its handler coroutine
    req,        \* per interaction: the arguments of the invocation
    locals,     \* per interaction: the handler's locals once it has deferred
    responses,  \* per interaction: what interaction.response / followup sent
    outbox,     \* the messages channel.send() delivered, oldest first
    fn,         \* helper under direct evaluation ("none" inside the handlers)
    args,       \* its argument
    rets        \* its successive results

vars == <<channels, guild, pc, req, locals, responses, outbox, fn, args, rets>>

handlerVars == <<channels, guild, pc, req, locals, responses, outbox>>

-----------------------------------------------------------------------------
(* Python values and str methods used by the bot *)

None == "<None>"

\* Python truthiness of an optional str: None and "" are falsy.
truthy(s) == s # None /\ s # ""

Min(a, b) == IF a <= b THEN a ELSE b

\* A faulty s[:n] that keeps one character too many.
slice_inclusive(s, n) == SubSeq(s, 1, Min(n + 1, Len(s)))

\* A faulty s[:n] that cuts nothing.
slice_whole(s, n) == s

\* s[:n]
slice(s, n) == SubSeq(s, 1, Min(n, Len(s)))

char(s, i) == SubSeq(s, i, i)

\* str.replace(old, new): leftmost non-overlapping occurrences of a non-empty old.
RECURSIVE replace(_, _, _)
replace(s, old, new) ==
    LET n == Len(s)
        k == Len(old)
        M == {i \in 1..(n - k + 1) : SubSeq(s, i, i + k - 1) = old}
    IN  IF M = {} THEN s
        ELSE LET m == CHOOSE i \in M : \A j \in M : i <= j
             IN  SubSeq(s, 1, m - 1) \o new \o replace(SubSeq(s, m + k, n), old, new)

\* The whitespace str.strip() removes (the part of it a model string can hold).
Whitespace == {" ", "\t", "\n", "\r", "\f"}

\* str.strip()
strip(s) ==
    LET n == Len(s)
        ws(i) == char(s, i) \in Whitespace
    IN  IF \A i \in 1..n : ws(i) THEN ""
        ELSE SubSeq(s, CHOOSE i \in 1..n : ~ws(i) /\ \A j \in 1..(i - 1) : ws(j),
                       CHOOSE i \in 1..n : ~ws(i) /\ \A j \in (i + 1)..n : ws(j))

\* str.split(sep) for a one-character sep: always at least one part.
RECURSIVE split(_, _)
split(s, sep) ==
    LET n == Len(s)
        M == {i \in 1..n : char(s, i) = sep}
    IN  IF M = {} THEN <<s>>
        ELSE LET m == CHOOSE i \in M : \A j \in M : i <= j
             IN  <<SubSeq(s, 1, m - 1)>> \o split(SubSeq(s, m + 1, n), sep)

\* sep.join(parts)
RECURSIVE join(_, _)
join(sep, parts) ==
    IF parts = <<>> THEN ""
    ELSE IF Len(parts) = 1 THEN parts[1]
    ELSE parts[1] \o sep \o join(sep, Tail(parts))

UpperCase == "ABCDEFGHIJKLMNOPQRSTUVWXYZ"
LowerCase == "abcdefghijklmnopqrstuvwxyz"

\* str.lower() (ASCII letters)
RECURSIVE lower(_)
lower(s) ==
    IF s = "" THEN ""
    ELSE LET c == char(s, 1)
             U == {i \in 1..26 : char(UpperCase, i) = c}
         IN  (IF U = {} THEN c ELSE char(LowerCase, CHOOSE i \in U : TRUE))
                 \o lower(SubSeq(s, 2, Len(s)))

-----------------------------------------------------------------------------
(* helpers for line breaks *)

\* A faulty _multiline that strips before it replaces.
_multiline_strip_first(s) ==
    IF s = None THEN None
    ELSE replace(replace(replace(replace(strip(s),
             "\\r\\n", "\n"), "\\n", "\n"), "\\r", "\n"), "\\t", "\t")

\* A faulty _multiline that replaces the standalone escapes before "\\r\\n".
_multiline_crlf_last(s) ==
    IF s = None THEN None
    ELSE strip(replace(replace(replace(replace(s,
             "\\n", "\n"), "\\r", "\n"), "\\r\\n", "\n"), "\\t", "\t"))

_multiline(s) ==
    IF s = None THEN None
    ELSE strip(replace(replace(replace(replace(s,
             "\\r\\n", "\n"), "\\n", "\n"), "\\r", "\n"), "\\t", "\t"))

-----------------------------------------------------------------------------
(* _multiline applied, and applied again to its own result *)

MaxNormLen == 6
MaxApply == 2

NormAlphabet == {"\\", "n", "r", "t", " "}

RECURSIVE StringsUpTo(_, _)
StringsUpTo(alphabet, n) ==
    IF n = 0 THEN {""}
    ELSE LET shorter == StringsUpTo(alphabet, n - 1)
         IN  shorter \cup {c \o s : c \in alphabet, s \in {t \in shorter : Len(t) = n - 1}}

NoInteractions ==
    /\ channels = <<>>
    /\ guild = [roles |-> <<>>]
    /\ pc = <<>>
    /\ req = <<>>
    /\ locals = <<>>
    /\ responses = <<>>
    /\ outbox = <<>>

InitNormalize ==
    /\ NoInteractions
    /\ fn = "_multiline"
    /\ args \in StringsUpTo(NormAlphabet, MaxNormLen) \cup {None}
    /\ rets = <<>>

call_multiline ==
    /\ fn = "_multiline"
    /\ Len(rets) < MaxApply
    /\ rets' = Append(rets, _multiline(IF rets = <<>> THEN args ELSE rets[Len(rets)]))
    /\ UNCHANGED <<handlerVars, fn, args>>

NextNormalize == call_multiline

SpecNormalize == InitNormalize /\ [][NextNormalize]_vars

-----------------------------------------------------------------------------
(* mention helpers *)

DecimalDigits == "0123456789"

\* Characters for which str.isdigit() is true and int() raises ValueError:
\* isdigit() accepts every Numeric_Type=Digit character, int() only decimals.
\* Model strings are ASCII: "^" in one stands for U+00B2 SUPERSCRIPT TWO.
NonDecimalDigits == {"^"}

isdecimal(c) == \E i \in 1..10 : char(DecimalDigits, i) = c

\* str.isdigit()
isdigit(s) ==
    /\ s # ""
    /\ \A i \in 1..Len(s) : isdecimal(char(s, i)) \/ char(s, i) \in NonDecimalDigits

RECURSIVE int_value(_)
int_value(s) ==
    IF s = "" THEN 0
    ELSE 10 * int_value(SubSeq(s, 1, Len(s) - 1))
           + ((CHOOSE i \in 1..10 : char(DecimalDigits, i) = char(s, Len(s))) - 1)

\* int(s) of a str that passed isdigit(): the number, or ValueError raised.
int(s) ==
    IF \A i \in 1..Len(s) : isdecimal(char(s, i))
    THEN [exc |-> None, value |-> int_value(s)]
    ELSE [exc |-> "ValueError", value |-> 0]

\* guild.get_role(role_id): <<the role>>, or <<>> for None.
get_role(g, role_id) ==
    LET found == SelectSeq(g.roles, LAMBDA r : r.id = role_id)
    IN  IF found = <<>> THEN <<>> ELSE <<found[1]>>

\* discord.utils.get(guild.roles, name=...): the first role so named, or <<>>.
utils_get(roles, name) ==
    LET found == SelectSeq(roles, LAMBDA r : r.name = name)
    IN  IF found = <<>> THEN <<>> ELSE <<found[1]>>

\* A faulty loop that looks an all-digit part up by id only, never by name.
RECURSIVE parse_role_parts_id_only(_, _, _)
parse_role_parts_id_only(g, parts, roles) ==
    IF parts = <<>> THEN [exc |-> None, value |-> roles]
    ELSE LET part == Head(parts)
         IN  IF part = "" THEN parse_role_parts_id_only(g, Tail(parts), roles)
             ELSE IF isdigit(part) /\ int(part).exc # None
                  THEN [exc |-> int(part).exc, value |-> <<>>]
             ELSE LET role == IF isdigit(part) THEN get_role(g, int(part).value)
                                               ELSE utils_get(g.roles, part)
                  IN  parse_role_parts_id_only(g, Tail(parts), roles \o role)

\* The loop of parse_role_mentions over the remaining parts; roles is the list so
\* far.  The result is [exc, value]: the exception that escaped, or the list.
RECURSIVE parse_role_parts(_, _, _)
parse_role_parts(g, parts, roles) ==
    IF parts = <<>> THEN [exc |-> None, value |-> roles]
    ELSE LET part == Head(parts)
         IN  IF part = "" THEN parse_role_parts(g, Tail(parts), roles)
             ELSE IF isdigit(part) /\ int(part).exc # None
                  THEN [exc |-> int(part).exc, value |-> <<>>]
             ELSE LET by_id == IF isdigit(part) THEN get_role(g, int(part).value)
                                                ELSE <<>>
                      role == IF by_id = <<>> THEN utils_get(g.roles, part) ELSE by_id
                  IN  parse_role_parts(g, Tail(parts), roles \o role)

parse_role_mentions(g, role_input) ==
    IF ~truthy(role_input) THEN [exc |-> None, value |-> <<>>]
    ELSE LET raw == split(role_input, ",")
             role_parts == [k \in 1..Len(raw) |-> strip(raw[k])]
         IN  parse_role_parts(g, role_parts, <<>>)

\* A faulty build_mention_content that joins the mentions with no separator.
build_mention_content_unspaced(mention_everyone, mention_roles) ==
    join("", (IF mention_everyone THEN <<"@everyone">> ELSE <<>>)
                 \o [k \in 1..Len(mention_roles) |-> mention_roles[k].mention])

build_mention_content(mention_everyone, mention_roles) ==
    LET mentions == (IF mention_everyone THEN <<"@everyone">> ELSE <<>>)
                       \o [k \in 1..Len(mention_roles) |-> mention_roles[k].mention]
    IN  join(" ", mentions)

-----------------------------------------------------------------------------
(* parse_role_mentions and build_mention_content applied to a role input *)

MaxRoleInputLen == 5

RoleAlphabet == {",", " ", "1", "a", "^"}

\* Role ids are 64-bit snowflakes in Discord; small ids stand for them here.
\* Role.mention is "<@&id>".  The last role is the guild's default role.
SmallGuild ==
    [roles |-> << [id |-> 1,  name |-> "a",   mention |-> "<@&1>"],
                  [id |-> 2,  name |-> "1",   mention |-> "<@&2>"],
                  [id |-> 3,  name |-> "11",  mention |-> "<@&3>"],
                  [id |-> 4,  name |-> "a a", mention |-> "<@&4>"],
                  [id |-> 5,  name |-> "a",   mention |-> "<@&5>"],
                  [id |-> 10, name |-> "@everyone", mention |-> "<@&10>"] >>]

InitRoles ==
    /\ channels = <<>>
    /\ guild = SmallGuild
    /\ pc = <<>>
    /\ req = <<>>
    /\ locals = <<>>
    /\ responses = <<>>
    /\ outbox = <<>>
    /\ fn = "parse_role_mentions"
    /\ args \in [role_input : StringsUpTo(RoleAlphabet, MaxRoleInputLen) \cup {None},
                 mention_everyone : BOOLEAN]
    /\ rets = <<>>

call_parse_role_mentions ==
    /\ fn = "parse_role_mentions"
    /\ rets = <<>>
    /\ rets' = <<parse_role_mentions(guild, args.role_input)>>
    /\ UNCHANGED <<handlerVars, fn, args>>

call_build_mention_content ==
    /\ fn = "parse_role_mentions"
    /\ Len(rets) = 1
    /\ rets[1].exc = None
    /\ rets' = Append(rets, build_mention_content(args.mention_everyone, rets[1].value))
    /\ UNCHANGED <<handlerVars, fn, args>>

NextRoles == call_parse_role_mentions \/ call_build_mention_content

SpecRoles == InitRoles /\ [][NextRoles]_vars

-----------------------------------------------------------------------------
(* Button System *)

\* discord.ButtonStyle
ButtonStyle == [primary |-> 1, secondary |-> 2, success |-> 3, danger |-> 4, link |-> 5]

\* A faulty create_button that keeps the caller's style on a button with a url.
create_button_style_kept(label, url, emoji, style) ==
    IF truthy(url)
    THEN [label |-> label, url |-> url, emoji |-> emoji, style |-> style,
          custom_id |-> None]
    ELSE [label |-> label, url |-> None, emoji |-> emoji, style |-> style,
          custom_id |-> "btn_" \o replace(lower(label), " ", "_")]

\* A Button: url and custom_id are None when not given.
create_button(label, url, emoji, style) ==
    IF truthy(url)
    THEN [label |-> label, url |-> url, emoji |-> emoji, style |-> ButtonStyle.link,
          custom_id |-> None]
    ELSE [label |-> label, url |-> None, emoji |-> emoji, style |-> style,
          custom_id |-> "btn_" \o replace(lower(label), " ", "_")]

\* dict.get(key, default)
get(kwargs, key, default) == IF key \in DOMAIN kwargs THEN kwargs[key] ELSE default

style_map ==
    [primary |-> ButtonStyle.primary, secondary |-> ButtonStyle.secondary,
     success |-> ButtonStyle.success, danger |-> ButtonStyle.danger,
     link |-> ButtonStyle.link]

\* The body of parse_button_params' loop for slot i: the buttons it appends.
button_of_slot(kwargs, i) ==
    LET n == char("123", i)
        label == get(kwargs, "button" \o n \o "_label", None)
        url == get(kwargs, "button" \o n \o "_url", None)
        emoji == get(kwargs, "button" \o n \o "_emoji", None)
        style_param == get(kwargs, "button" \o n \o "_style", "secondary")
        style == get(style_map, lower(style_param), ButtonStyle.secondary)
    IN  IF ~truthy(label) THEN <<>> ELSE <<create_button(label, url, emoji, style)>>

\* A faulty parse_button_params that leaves its loop at the first slot without
\* a label.
parse_button_params_break(kwargs) ==
    IF button_of_slot(kwargs, 1) = <<>> THEN <<>>
    ELSE IF button_of_slot(kwargs, 2) = <<>> THEN button_of_slot(kwargs, 1)
    ELSE button_of_slot(kwargs, 1) \o button_of_slot(kwargs, 2) \o button_of_slot(kwargs, 3)

parse_button_params(kwargs) ==
    button_of_slot(kwargs, 1) \o button_of_slot(kwargs, 2) \o button_of_slot(kwargs, 3)

\* The handlers' button_kwargs dict, from the twelve button parameters given as
\* three slots [label, url, emoji, style].
button_kwargs(slots) ==
    [k \in {"button" \o char("123", i) \o "_" \o f :
                i \in 1..3, f \in {"label", "url", "emoji", "style"}} |->
        LET i == CHOOSE j \in 1..3 : char(k, 7) = char("123", j)
        IN  slots[i][SubSeq(k, 9, Len(k))]]

-----------------------------------------------------------------------------
(* parse_button_params applied to the twelve button parameters *)

SlotGrid ==
    [label : {None, "", "Go"}, url : {None, "https://a.b"}, emoji : {None},
     style : {"secondary", "SUCCESS", "fancy", "link"}]

SlotExtras ==
    { [label |-> "Go", url |-> "", emoji |-> "e", style |-> "Primary"],
      [label |-> "Buy Now", url |-> None, emoji |-> None, style |-> "danger"],
      [label |-> "buy_now", url |-> None, emoji |-> "e", style |-> "success"],
      [label |-> "Buy Now", url |-> "https://a.b", emoji |-> "e", style |-> "dAnGeR"],
      [label |-> None, url |-> "https://a.b", emoji |-> "e", style |-> "primary"],
      [label |-> "Go", url |-> None, emoji |-> None, style |-> "secondary "] }

SlotInputs == SlotGrid \cup SlotExtras

\* kwargs that leave out the style keys: dict.get then supplies "secondary".
without_style(kwargs) ==
    [k \in {x \in DOMAIN kwargs : SubSeq(x, 9, Len(x)) # "style"} |-> kwargs[k]]

InitButtons ==
    /\ NoInteractions
    /\ fn = "parse_button_params"
    /\ \E s1 \in SlotInputs, s2 \in SlotInputs, s3 \in SlotInputs :
           \/ args = button_kwargs(<<s1, s2, s3>>)
           \/ s1.style = "secondary" /\ s2.style = "secondary" /\ s3.style = "secondary"
                /\ args = without_style(button_kwargs(<<s1, s2, s3>>))
    /\ rets = <<>>

call_parse_button_params ==
    /\ fn = "parse_button_params"
    /\ rets = <<>>
    /\ rets' = <<parse_button_params(args)>>
    /\ UNCHANGED <<handlerVars, fn, args>>

NextButtons == call_parse_button_params

SpecButtons == InitButtons /\ [][NextButtons]_vars

-----------------------------------------------------------------------------
(* permission checks, send_embed and the slash command handlers *)

ANNOUNCEMENT_CHANNEL_ID == "1389417490651807869"
UPDATE_CHANNEL_ID == "1420408382845751306"

\* A faulty can_mention_everyone that also grants the privilege to Support.
can_mention_everyone_support(user) ==
    user.administrator \/ \E name \in user.role_names : name \in {"Owner", "Admin", "Support"}

\* user is interaction.user: [administrator, role_names].
can_mention_everyone(user) ==
    user.administrator \/ \E name \in user.role_names : name \in {"Owner", "Admin"}

\* A faulty staff_only that lacks the administrator shortcut.
staff_only_roles_only(user) ==
    LET allowed_role_names == {"Owner", "Admin", "Support"}
    IN  Cardinality(allowed_role_names \cap user.role_names) > 0

staff_only(user) ==
    IF user.administrator THEN TRUE
    ELSE LET allowed_role_names == {"Owner", "Admin", "Support"}
             user_role_names == user.role_names
         IN  Cardinality(allowed_role_names \cap user_role_names) > 0

\* What send_embed hands to channel.send().  content is None and allowed_mentions
\* is <<>> when the keyword is not passed; view is the list of buttons, <<>> for
\* no view.
send_embed(channel, title, body, footer, buttons, mention_everyone, mention_roles) ==
    LET embed == [title |-> slice(strip(title), 256),
                  description |-> slice(strip(body), 4096),
                  footer |-> IF truthy(footer) THEN slice(footer, 2048) ELSE None,
                  author |-> "Omegaberg | Official Shop"]
        view == buttons
        mention_content == build_mention_content(mention_everyone, mention_roles)
        allowed_mentions == [everyone |-> mention_everyone, roles |-> mention_roles # <<>>]
    IN  IF mention_content # ""
        THEN [channel |-> channel, content |-> mention_content, embed |-> embed,
              view |-> view, allowed_mentions |-> <<allowed_mentions>>]
        ELSE [channel |-> channel, content |-> None, embed |-> embed,
              view |-> view, allowed_mentions |-> <<>>]

\* The allow-list the transport works with for a message: the one handed to
\* channel.send(), or, when none is handed (the Bot is built without
\* allowed_mentions), the transport's default, under which every mention type
\* may notify.
allowed_by_transport(msg, kind) ==
    IF msg.allowed_mentions = <<>> THEN TRUE ELSE msg.allowed_mentions[1][kind]

\* return await interaction.response.send_message(content, ephemeral=True)
reject(i, content) ==
    /\ pc' = [pc EXCEPT ![i] = "rejected"]
    /\ responses' = [responses EXCEPT ![i] =
           Append(@, [via |-> "response.send_message", content |-> content,
                      ephemeral |-> TRUE])]
    /\ UNCHANGED <<locals, outbox>>

\* The handler after its gates, up to its first await: an exception out of
\* parse_role_mentions, or the locals computed and the response deferred.
compose(i, CHANNEL_ID) ==
    LET r == req[i]
        title == slice(_multiline(r.title), 256)
        body == slice(_multiline(r.body), 4096)
        footer == IF truthy(r.footer) THEN slice(_multiline(r.footer), 2048)
                                      ELSE None
        roles_to_mention == parse_role_mentions(guild, r.mention_roles)
        buttons == parse_button_params(button_kwargs(r.buttons))
    IN  IF roles_to_mention.exc # None
        THEN /\ pc' = [pc EXCEPT ![i] = "raised"]
             /\ UNCHANGED <<locals, responses, outbox>>
        ELSE /\ pc' = [pc EXCEPT ![i] = "deferred"]
             /\ responses' = [responses EXCEPT ![i] =
                    Append(@, [via |-> "response.defer", content |-> None,
                               ephemeral |-> TRUE])]
             /\ locals' = [locals EXCEPT ![i] =
                    [channel |-> CHANNEL_ID, title |-> title, body |-> body,
                     footer |-> footer,
                     roles_to_mention |-> roles_to_mention.value,
                     buttons |-> buttons,
                     mention_everyone |-> r.mention_everyone]]
             /\ UNCHANGED outbox

\* A faulty handler that looks for its channel before it checks the requester.
post_channel_first(i, CHANNEL_ID, not_found) ==
    LET r == req[i]
        channel == channels[CHANNEL_ID]
    IN  IF channel # "TextChannel"
        THEN reject(i, not_found)
        ELSE IF ~staff_only(r.user)
        THEN reject(i, "You don't have permission to post here.")
        ELSE IF r.mention_everyone /\ ~can_mention_everyone(r.user)
        THEN reject(i, "You don't have permission to use @everyone mentions.")
        ELSE compose(i, CHANNEL_ID)

\* The handler from its first line to its first await: a rejection by one of its
\* three gates, or what follows them.
post(i, CHANNEL_ID, not_found) ==
    LET r == req[i]
        channel == channels[CHANNEL_ID]
    IN  IF ~staff_only(r.user)
        THEN reject(i, "You don't have permission to post here.")
        ELSE IF r.mention_everyone /\ ~can_mention_everyone(r.user)
        THEN reject(i, "You don't have permission to use @everyone mentions.")
        ELSE IF channel # "TextChannel"
        THEN reject(i, not_found)
        ELSE compose(i, CHANNEL_ID)

announce(i) ==
    /\ pc[i] = "invoked"
    /\ req[i].command = "announce"
    /\ post(i, ANNOUNCEMENT_CHANNEL_ID, "Announcement channel not found. Check the ID.")
    /\ UNCHANGED <<channels, guild, req, fn, args, rets>>

update(i) ==
    /\ pc[i] = "invoked"
    /\ req[i].command = "update"
    /\ post(i, UPDATE_CHANNEL_ID, "Update channel not found. Check the ID.")
    /\ UNCHANGED <<channels, guild, req, fn, args, rets>>

\* A faulty send step that takes its arguments from a slot shared by the
\* invocations: those of an invocation that has deferred, not its own.
send_embed_returns_shared(i) ==
    /\ pc[i] = "deferred"
    /\ LET l == locals[CHOOSE j \in DOMAIN pc : pc[j] = "deferred"]
       IN  outbox' = Append(outbox,
               [by |-> i,
                msg |-> send_embed(l.channel, l.title, l.body, l.footer, l.buttons,
                                   l.mention_everyone, l.roles_to_mention)])
    /\ pc' = [pc EXCEPT ![i] = "sent"]
    /\ UNCHANGED <<channels, guild, req, locals, responses, fn, args, rets>>

\* msg = await send_embed(...): channel.send() delivers the message.
send_embed_returns(i) ==
    /\ pc[i] = "deferred"
    /\ LET l == locals[i]
       IN  outbox' = Append(outbox,
               [by |-> i,
                msg |-> send_embed(l.channel, l.title, l.body, l.footer, l.buttons,
                                   l.mention_everyone, l.roles_to_mention)])
    /\ pc' = [pc EXCEPT ![i] = "sent"]
    /\ UNCHANGED <<channels, guild, req, locals, responses, fn, args, rets>>

\* msg = await send_embed(...): channel.send() raises and the handler ends there.
send_embed_raises(i) ==
    /\ pc[i] = "deferred"
    /\ pc' = [pc EXCEPT ![i] = "failed"]
    /\ UNCHANGED <<channels, guild, req, locals, responses, outbox, fn, args, rets>>

\* await interaction.followup.send(f"Posted to ...", ephemeral=True)
followup(i) ==
    /\ pc[i] = "sent"
    /\ LET l == locals[i]
           mention_summary ==
               (IF l.mention_everyone THEN <<"@everyone">> ELSE <<>>)
                   \o [k \in 1..Len(l.roles_to_mention) |-> l.roles_to_mention[k].name]
           mention_text == IF mention_summary # <<>>
                           THEN " (mentioned: " \o join(", ", mention_summary) \o ")"
                           ELSE ""
       IN  responses' = [responses EXCEPT ![i] =
               Append(@, [via |-> "followup.send",
                          content |-> "Posted to <#" \o l.channel \o ">: <jump_url>"
                                          \o mention_text,
                          ephemeral |-> TRUE])]
    /\ pc' = [pc EXCEPT ![i] = "done"]
    /\ UNCHANGED <<channels, guild, req, locals, outbox, fn, args, rets>>

Next ==
    \/ \E i \in DOMAIN pc : announce(i)
    \/ \E i \in DOMAIN pc : update(i)
    \/ \E i \in DOMAIN pc : send_embed_returns(i)
    \/ \E i \in DOMAIN pc : send_embed_raises(i)
    \/ \E i \in DOMAIN pc : followup(i)

-----------------------------------------------------------------------------
(* one invocation of /post announce or /post update *)

Interactions == {1}

ChannelTypes == {"TextChannel", "VoiceChannel", None}

Users == [administrator : BOOLEAN, role_names : SUBSET {"Owner", "Admin", "Support", "Member"}]

\* The guild of the interaction; the last role is its default role.
HomeGuild ==
    [roles |-> << [id |-> 7, name |-> "Owner",   mention |-> "<@&7>"],
                  [id |-> 8, name |-> "Admin",   mention |-> "<@&8>"],
                  [id |-> 9, name |-> "Support", mention |-> "<@&9>"],
                  [id |-> 12, name |-> "Member", mention |-> "<@&12>"],
                  [id |-> 1, name |-> "@everyone", mention |-> "<@&1>"] >>]

NoButton == [label |-> None, url |-> None, emoji |-> None, style |-> "secondary"]

ButtonInputs ==
    { <<NoButton, NoButton, NoButton>>,
      <<[label |-> "Shop", url |-> "https://a.b", emoji |-> None, style |-> "secondary"],
        [label |-> None, url |-> "https://a.b", emoji |-> None, style |-> "secondary"],
        [label |-> "Buy Now", url |-> None, emoji |-> "e", style |-> "SUCCESS"]>> }

Requests ==
    [command : {"announce", "update"},
     user : Users,
     title : {"Sale"},
     body : {"line1\\nline2", " \\n"},
     footer : {None, " f\\t"},
     mention_everyone : BOOLEAN,
     mention_roles : {None, "Support", "12, NonexistentRole, Support", "^"},
     buttons : ButtonInputs]

InitHandlers(requests) ==
    /\ channels \in [{ANNOUNCEMENT_CHANNEL_ID, UPDATE_CHANNEL_ID} -> ChannelTypes]
    /\ guild = HomeGuild
    /\ pc = [i \in Interactions |-> "invoked"]
    /\ req \in [Interactions -> requests]
    /\ locals = [i \in Interactions |-> <<>>]
    /\ responses = [i \in Interactions |-> <<>>]
    /\ outbox = <<>>
    /\ fn = "none"
    /\ args = None
    /\ rets = <<>>

Init == InitHandlers(Requests)

Spec == Init /\ [][Next]_vars

-----------------------------------------------------------------------------
(* one invocation with long titles, bodies and footers *)

RECURSIVE Repeat(_, _)
Repeat(c, n) ==
    IF n = 0 THEN ""
    ELSE IF n % 2 = 1 THEN c \o Repeat(c, n - 1)
    ELSE LET half == Repeat(c, n \div 2) IN half \o half

LongBodies ==
    { Repeat("x", 5000),
      " " \o Repeat("x", 4999),
      Repeat("x", 4095) \o " " \o Repeat("y", 904),
      Repeat("x", 4094) \o " \n" \o Repeat("y", 904),
      "a\\nb" \o Repeat("x", 4996),
      Repeat("x", 4090) \o "\\n\\t\\r\\n\\n\\n" \o "yy",
      Repeat("x", 4090) \o "\\n\\t\\r\\n\\n\\n\\n\\n" }

ThreeButtons ==
    << [label |-> "Shop", url |-> "https://a.b", emoji |-> None, style |-> "secondary"],
       [label |-> "Buy Now", url |-> None, emoji |-> "e", style |-> "SUCCESS"],
       [label |-> "Help", url |-> None, emoji |-> None, style |-> "primary"] >>

TextRequests ==
    [command : {"announce", "update"},
     user : {[administrator |-> FALSE, role_names |-> {"Support"}]},
     title : {"Sale", "\\n", Repeat("T", 255) \o " " \o Repeat("U", 44)},
     body : LongBodies \cup {"line1\\nline2", " \\t "},
     footer : {None, Repeat("f", 2047) \o "\\n" \o "g"},
     mention_everyone : {FALSE},
     mention_roles : {None},
     buttons : {<<NoButton, NoButton, NoButton>>, ThreeButtons}]

InitText == InitHandlers(TextRequests)

SpecText == InitText /\ [][Next]_vars

-----------------------------------------------------------------------------
(* two invocations whose handlers interleave at their awaits *)

Invocations == {1, 2}

ConcurrentRequests ==
    [command : {"announce", "update"},
     user : {[administrator |-> FALSE, role_names |-> {"Member"}],
             [administrator |-> FALSE, role_names |-> {"Support"}],
             [administrator |-> FALSE, role_names |-> {"Owner"}]},
     title : {"Sale"},
     body : {"line1\\nline2"},
     footer : {None},
     mention_everyone : BOOLEAN,
     mention_roles : {None, "Support"},
     buttons : {<<NoButton, NoButton, NoButton>>}]

InitConcurrent ==
    /\ channels \in [{ANNOUNCEMENT_CHANNEL_ID, UPDATE_CHANNEL_ID} -> {"TextChannel", None}]
    /\ guild = HomeGuild
    /\ pc = [i \in Invocations |-> "invoked"]
    /\ req \in [Invocations -> ConcurrentRequests]
    /\ locals = [i \in Invocations |-> <<>>]
    /\ responses = [i \in Invocations |-> <<>>]
    /\ outbox = <<>>
    /\ fn = "none"
    /\ args = None
    /\ rets = <<>>

SpecConcurrent == InitConcurrent /\ [][Next]_vars

-----------------------------------------------------------------------------
(* one invocation whose role input names the guild's default role *)

\* guild.roles includes the guild's default role, named "@everyone".  Role.mention
\* is the library's: "<@&id>" for every role in HomeGuild; in this guild the
\* default role's mention form is the text "@everyone".
EveryoneGuild ==
    [roles |-> << [id |-> 7, name |-> "Owner",   mention |-> "<@&7>"],
                  [id |-> 8, name |-> "Admin",   mention |-> "<@&8>"],
                  [id |-> 9, name |-> "Support", mention |-> "<@&9>"],
                  [id |-> 12, name |-> "Member", mention |-> "<@&12>"],
                  [id |-> 1, name |-> "@everyone", mention |-> "@everyone"] >>]

EveryoneRequests ==
    [command : {"announce", "update"},
     user : {[administrator |-> FALSE, role_names |-> {"Member"}],
             [administrator |-> FALSE, role_names |-> {"Support"}],
             [administrator |-> FALSE, role_names |-> {"Owner"}],
             [administrator |-> TRUE, role_names |-> {}]},
     title : {"Sale"},
     body : {"line1\\nline2"},
     footer : {None},
     mention_everyone : BOOLEAN,
     mention_roles : {None, "@everyone", "Support, @everyone", "1", "everyone"},
     buttons : {<<NoButton, NoButton, NoButton>>}]

InitEveryone ==
    /\ channels \in [{ANNOUNCEMENT_CHANNEL_ID, UPDATE_CHANNEL_ID} -> ChannelTypes]
    /\ guild \in {HomeGuild, EveryoneGuild}
    /\ pc = [i \in Interactions |-> "invoked"]
    /\ req \in [Interactions -> EveryoneRequests]
    /\ locals = [i \in Interactions |-> <<>>]
    /\ responses = [i \in Interactions |-> <<>>]
    /\ outbox = <<>>
    /\ fn = "none"
    /\ args = None
    /\ rets = <<>>

SpecEveryone == InitEveryone /\ [][Next]_vars

-----------------------------------------------------------------------------
(* Properties of the post handlers *)

ForbiddenPost == "You don't have permission to post here."
ForbiddenEveryone == "You don't have permission to use @everyone mentions."

\* The interaction got exactly this one private response and its handler returned.
RejectedWith(i, content) ==
    /\ pc[i] = "rejected"
    /\ responses[i] = <<[via |-> "response.send_message", content |-> content,
                         ephemeral |-> TRUE]>>

\* Some response to the interaction is a Forbidden rejection.
Forbidden(i) ==
    \E k \in 1..Len(responses[i]) :
        responses[i][k].content \in {ForbiddenPost, ForbiddenEveryone}

NothingSentFor(i) == \A k \in 1..Len(outbox) : outbox[k].by # i

AllowListed(user) == user.role_names \cap {"Owner", "Admin", "Support"}

\* C1: for announce and update alike, a requester with neither the administrator
\* flag nor a role named Owner, Admin or Support is rejected with the posting
\* Forbidden message and nothing is sent for the invocation, whatever the other
\* arguments; any other requester is never given that rejection.
C1_StaffGate ==
    \A i \in DOMAIN pc :
        pc[i] # "invoked" =>
            IF ~req[i].user.administrator /\ AllowListed(req[i].user) = {}
            THEN RejectedWith(i, ForbiddenPost) /\ NothingSentFor(i)
            ELSE \A k \in 1..Len(responses[i]) : responses[i][k].content # ForbiddenPost

\* A non-staff update request that also asks for @everyone, role mentions and
\* buttons has been rejected.
C1_Witness ==
    \E i \in DOMAIN pc :
        /\ req[i].command = "update"
        /\ req[i].user = [administrator |-> FALSE, role_names |-> {"Member"}]
        /\ req[i].mention_everyone
        /\ req[i].mention_roles = "Support"
        /\ req[i].buttons # <<NoButton, NoButton, NoButton>>
        /\ RejectedWith(i, ForbiddenPost)

SupportOnly(user) == ~user.administrator /\ AllowListed(user) = {"Support"}

Privileged(user) == user.administrator \/ user.role_names \cap {"Owner", "Admin"} # {}

\* C2: a requester whose only allow-listed role is Support is not refused as
\* Forbidden when mention_everyone is false, and is rejected with the @everyone
\* Forbidden message, nothing being sent, when it is true; an administrator or a
\* holder of Owner or Admin is not refused as Forbidden in either case.
C2_EveryoneGate ==
    \A i \in DOMAIN pc :
        pc[i] # "invoked" =>
            /\ SupportOnly(req[i].user) /\ ~req[i].mention_everyone => ~Forbidden(i)
            /\ SupportOnly(req[i].user) /\ req[i].mention_everyone =>
                   RejectedWith(i, ForbiddenEveryone) /\ NothingSentFor(i)
            /\ Privileged(req[i].user) => ~Forbidden(i)

\* A Support-only requester asking for @everyone has been rejected.
C2_Witness ==
    \E i \in DOMAIN pc :
        /\ SupportOnly(req[i].user)
        /\ req[i].mention_everyone
        /\ channels[ANNOUNCEMENT_CHANNEL_ID] = "TextChannel"
        /\ req[i].command = "announce"
        /\ RejectedWith(i, ForbiddenEveryone)

\* C3: in every message sent, the everyone flag of the allow-list is enabled iff
\* everyone was requested and the requester passed the everyone gate, and the role
\* flag is enabled iff at least one role reference was resolved.
C3_AllowListMirrors ==
    \A k \in 1..Len(outbox) :
        LET i == outbox[k].by
            msg == outbox[k].msg
        IN  /\ allowed_by_transport(msg, "everyone")
                 <=> (req[i].mention_everyone /\ Privileged(req[i].user))
            /\ allowed_by_transport(msg, "roles")
                 <=> (locals[i].roles_to_mention # <<>>)

\* The part of C3 the code keeps: a message sent with mention text carries an
\* allow-list that mirrors the request.
C3_WithMentionText ==
    \A k \in 1..Len(outbox) :
        LET i == outbox[k].by
            msg == outbox[k].msg
        IN  msg.content # None =>
                /\ msg.allowed_mentions =
                       <<[everyone |-> req[i].mention_everyone /\ Privileged(req[i].user),
                          roles |-> locals[i].roles_to_mention # <<>>]>>

\* C4 as stated: a body longer than 4096 characters is sent as exactly its own
\* first 4096 characters.
C4_UnmodifiedPrefix ==
    \A k \in 1..Len(outbox) :
        LET body == req[outbox[k].by].body
            description == outbox[k].msg.embed.description
        IN  Len(body) > 4096 =>
                /\ Len(description) = 4096
                /\ description = SubSeq(body, 1, 4096)

PlainAtCut(body) ==
    /\ \A j \in 1..Len(body) : char(body, j) # "\\"
    /\ char(body, 1) \notin Whitespace
    /\ char(body, 4096) \notin Whitespace

\* C4 amended: a body longer than 4096 characters is sent as the first 4096
\* characters of its normalized text with the whitespace at their end removed, so
\* as at most 4096 characters; it is exactly the body's own first 4096 characters
\* when the body has no escape sequence and no whitespace at its start or at the
\* cut position.
C4_NormalizedPrefix ==
    \A k \in 1..Len(outbox) :
        LET body == req[outbox[k].by].body
            description == outbox[k].msg.embed.description
            normalized == _multiline(body)
            cut == IF Len(normalized) > 4096 THEN SubSeq(normalized, 1, 4096)
                                             ELSE normalized
        IN  Len(body) > 4096 =>
                /\ Len(description) <= 4096
                /\ description = strip(cut)
                /\ PlainAtCut(body) =>
                       Len(description) = 4096 /\ description = SubSeq(body, 1, 4096)

\* A body with a space at the cut position has been sent one character short.
C4_Witness ==
    \E k \in 1..Len(outbox) :
        /\ req[outbox[k].by].body = Repeat("x", 4095) \o " " \o Repeat("y", 904)
        /\ outbox[k].msg.embed.description = Repeat("x", 4095)

NotFound(command) ==
    IF command = "announce" THEN "Announcement channel not found. Check the ID."
                            ELSE "Update channel not found. Check the ID."

\* The channel the command posts to, as the client's cache holds it.
Target(i) ==
    channels[IF req[i].command = "announce" THEN ANNOUNCEMENT_CHANNEL_ID
                                            ELSE UPDATE_CHANNEL_ID]

\* The requester passes the posting gate and, if everyone is requested, the
\* everyone gate.
Authorized(r) ==
    /\ r.user.administrator \/ AllowListed(r.user) # {}
    /\ r.mention_everyone => Privileged(r.user)

\* C11: an authorized request whose target channel is missing or is not a text
\* channel is rejected with the command's channel-not-found message and nothing
\* is sent; a request that fails authorization is rejected as Forbidden, never as
\* channel-not-found, whatever the channel is; with a text channel nobody is
\* told that the channel was not found.
C11_TargetGate ==
    \A i \in DOMAIN pc :
        pc[i] # "invoked" =>
            /\ Authorized(req[i]) /\ Target(i) # "TextChannel" =>
                   RejectedWith(i, NotFound(req[i].command)) /\ NothingSentFor(i)
            /\ ~Authorized(req[i]) =>
                   /\ RejectedWith(i, ForbiddenPost) \/ RejectedWith(i, ForbiddenEveryone)
                   /\ NothingSentFor(i)
            /\ Target(i) = "TextChannel" =>
                   \A k \in 1..Len(responses[i]) :
                       responses[i][k].content # NotFound(req[i].command)

\* An Owner posting to a channel the client does not know has been told that the
\* channel was not found.
C11_Witness ==
    \E i \in DOMAIN pc :
        /\ Target(i) = None
        /\ req[i].user = [administrator |-> FALSE, role_names |-> {"Owner"}]
        /\ req[i].mention_everyone
        /\ RejectedWith(i, NotFound(req[i].command))

\* The title or the body of the request is empty once normalized.
Blank(r) == _multiline(r.title) = "" \/ _multiline(r.body) = ""

\* C12: a request that passes the gates but whose title or body is empty after
\* normalization is rejected with one private message to the requester, and no
\* message is sent to the channel.
C12_ValidationEmpty ==
    \A i \in DOMAIN pc :
        pc[i] # "invoked" /\ Authorized(req[i]) /\ Target(i) = "TextChannel"
                /\ Blank(req[i]) =>
            /\ pc[i] = "rejected"
            /\ Len(responses[i]) = 1
            /\ responses[i][1].via = "response.send_message"
            /\ NothingSentFor(i)

\* What the code does instead: the only rejections are the two Forbidden messages
\* and channel-not-found, so a blank title or body is composed and sent like any
\* other.
C12_OnlyThreeRejections ==
    \A i \in DOMAIN pc :
        /\ pc[i] = "rejected" =>
               \/ RejectedWith(i, ForbiddenPost)
               \/ RejectedWith(i, ForbiddenEveryone)
               \/ RejectedWith(i, NotFound(req[i].command))
        /\ \A k \in 1..Len(outbox) :
               outbox[k].by = i =>
                   outbox[k].msg.embed.description = strip(slice(_multiline(req[i].body), 4096))

\* A message with an empty body has been sent to the channel.
C12_BlankSent ==
    \E k \in 1..Len(outbox) :
        /\ Blank(req[outbox[k].by])
        /\ outbox[k].msg.embed.description = ""

IsPrefix(p, s) == Len(p) <= Len(s) /\ SubSeq(s, 1, Len(p)) = p

\* The whitespace at the end of s removed.
RStrip(s) ==
    LET n == Len(s)
        ws(j) == char(s, j) \in Whitespace
    IN  IF \A j \in 1..n : ws(j) THEN ""
        ELSE SubSeq(s, 1, CHOOSE j \in 1..n : ~ws(j) /\ \A m \in (j + 1)..n : ws(m))

\* C13: every message sent has a title of at most 256 characters, a body of at
\* most 4096, a footer, when it has one, of at most 2048, and at most 3 buttons;
\* each text is a prefix of its normalized input, cut at the limit wherever that
\* falls: the first 256 / 4096 characters less the whitespace at their end for
\* title and body, the first 2048 characters for the footer.
C13_Bounds ==
    \A k \in 1..Len(outbox) :
        LET r == req[outbox[k].by]
            msg == outbox[k].msg
            title == _multiline(r.title)
            body == _multiline(r.body)
            footer == _multiline(r.footer)
        IN  /\ Len(msg.embed.title) <= 256
            /\ Len(msg.embed.description) <= 4096
            /\ Len(msg.view) <= 3
            /\ IsPrefix(msg.embed.title, title)
            /\ IsPrefix(msg.embed.description, body)
            /\ msg.embed.title = RStrip(SubSeq(title, 1, Min(256, Len(title))))
            /\ msg.embed.description = RStrip(SubSeq(body, 1, Min(4096, Len(body))))
            /\ msg.embed.footer # None =>
                   /\ Len(msg.embed.footer) <= 2048
                   /\ IsPrefix(msg.embed.footer, footer)
                   /\ msg.embed.footer = SubSeq(footer, 1, Min(2048, Len(footer)))
            /\ msg.embed.footer = None <=> footer \in {None, ""}

\* A message whose title, body and footer were all cut and that has 3 buttons has
\* been sent.
C13_Witness ==
    \E k \in 1..Len(outbox) :
        LET r == req[outbox[k].by]
            msg == outbox[k].msg
        IN  /\ Len(r.title) > 256 /\ Len(msg.embed.title) = 255
            /\ r.body = Repeat("x", 5000) /\ Len(msg.embed.description) = 4096
            /\ Len(r.footer) > 2048 /\ Len(msg.embed.footer) = 2048
            /\ Len(msg.view) = 3

\* The messages invocation i has had delivered, oldest first.
SentBy(i) ==
    LET mine == SelectSeq(outbox, LAMBDA o : o.by = i)
    IN  [k \in 1..Len(mine) |-> mine[k].msg]

\* Where invocation i stands, what its requester has received, what it has sent.
Outcome(i) ==
    [pc |-> pc[i],
     responses |-> [k \in 1..Len(responses[i]) |->
                        [via |-> responses[i][k].via,
                         rejection |-> IF responses[i][k].via = "response.send_message"
                                       THEN responses[i][k].content ELSE None]],
     sent |-> SentBy(i)]

\* The message a request is composed into.
Composed(r) ==
    send_embed(IF r.command = "announce" THEN ANNOUNCEMENT_CHANNEL_ID
                                         ELSE UPDATE_CHANNEL_ID,
               slice(_multiline(r.title), 256),
               slice(_multiline(r.body), 4096),
               IF truthy(r.footer) THEN slice(_multiline(r.footer), 2048) ELSE None,
               parse_button_params(button_kwargs(r.buttons)),
               r.mention_everyone,
               parse_role_mentions(guild, r.mention_roles).value)

\* The outcomes an invocation of request r passes through when it runs alone.
AloneOutcomes(r) ==
    LET target == channels[IF r.command = "announce" THEN ANNOUNCEMENT_CHANNEL_ID
                                                     ELSE UPDATE_CHANNEL_ID]
        refusal == IF ~r.user.administrator /\ AllowListed(r.user) = {}
                   THEN ForbiddenPost
                   ELSE IF r.mention_everyone /\ ~Privileged(r.user)
                   THEN ForbiddenEveryone
                   ELSE IF target # "TextChannel" THEN NotFound(r.command)
                   ELSE None
        deferred == [via |-> "response.defer", rejection |-> None]
        confirmed == [via |-> "followup.send", rejection |-> None]
    IN  {[pc |-> "invoked", responses |-> <<>>, sent |-> <<>>]}
        \cup
        IF refusal # None
        THEN {[pc |-> "rejected",
               responses |-> <<[via |-> "response.send_message", rejection |-> refusal]>>,
               sent |-> <<>>]}
        ELSE IF parse_role_mentions(guild, r.mention_roles).exc # None
        THEN {[pc |-> "raised", responses |-> <<>>, sent |-> <<>>]}
        ELSE {[pc |-> "deferred", responses |-> <<deferred>>, sent |-> <<>>],
              [pc |-> "failed", responses |-> <<deferred>>, sent |-> <<>>],
              [pc |-> "sent", responses |-> <<deferred>>, sent |-> <<Composed(r)>>],
              [pc |-> "done", responses |-> <<deferred, confirmed>>,
               sent |-> <<Composed(r)>>]}

\* AloneOutcomes is what one invocation on its own does (checked where a single
\* invocation runs).
C14_AloneOutcome == \A i \in DOMAIN pc : Outcome(i) \in AloneOutcomes(req[i])

\* One handler moves: the other invocations keep their position, locals and
\* responses, the outbox grows by at most one message, which is the mover's, and
\* the channel cache, the guild and the requests stay as they are.
OneHandlerMoves ==
    \E i \in DOMAIN pc :
        /\ \A j \in DOMAIN pc \ {i} :
               pc'[j] = pc[j] /\ locals'[j] = locals[j] /\ responses'[j] = responses[j]
        /\ \/ outbox' = outbox
           \/ /\ Len(outbox') = Len(outbox) + 1
              /\ SubSeq(outbox', 1, Len(outbox)) = outbox
              /\ outbox'[Len(outbox')].by = i
        /\ channels' = channels /\ guild' = guild /\ req' = req

\* C14: however two invocations interleave at their awaits, each one's outcome
\* and the message it sends are those it produces when run alone, a step of one
\* handler changes nothing of the other invocation, and the channel cache, the
\* guild and the requests are never modified.
C14_Isolated == [](\A i \in DOMAIN pc : Outcome(i) \in AloneOutcomes(req[i]))
                    /\ [][OneHandlerMoves]_vars

\* Two different requests have interleaved: the second invocation's message was
\* delivered first and confirmed, the first one's was delivered after it.
C14_Witness ==
    /\ DOMAIN pc = {1, 2}
    /\ req[1].command = "announce" /\ req[1].mention_roles = "Support"
    /\ req[2].command = "update" /\ req[2].mention_everyone
    /\ Len(outbox) = 2
    /\ outbox[1].by = 2 /\ outbox[2].by = 1
    /\ outbox[1].msg.content = "@everyone"
    /\ outbox[2].msg.content = "<@&9>"
    /\ pc[2] = "done" /\ pc[1] = "sent"

Vias(i) == [k \in 1..Len(responses[i]) |-> responses[i][k].via]

\* The order of the protocol: the first response is a private rejection or a
\* private deferral; after a rejection there is nothing more; the channel gets at
\* most one message, and only after the deferral; the one follow-up comes only
\* after the message was delivered, and never after a failed send.
ResponseOrder(i) ==
    /\ Vias(i) \in {<<>>, <<"response.send_message">>, <<"response.defer">>,
                    <<"response.defer", "followup.send">>}
    /\ \A k \in 1..Len(responses[i]) : responses[i][k].ephemeral
    /\ Len(SentBy(i)) <= 1
    /\ SentBy(i) # <<>> => Vias(i)[1] = "response.defer"
    /\ Vias(i) = <<"response.send_message">> => pc[i] = "rejected"
    /\ Len(Vias(i)) = 2 <=> pc[i] = "done"
    /\ pc[i] = "done" => Len(SentBy(i)) = 1
    /\ pc[i] = "failed" => SentBy(i) = <<>> /\ Vias(i) = <<"response.defer">>

\* A handler that has returned or raised takes no further step: nothing is retried.
Final(i) ==
    pc[i] \in {"rejected", "raised", "failed", "done"} =>
        /\ pc'[i] = pc[i]
        /\ responses'[i] = responses[i]
        /\ SentBy(i)' = SentBy(i)

\* C15: every invocation that has run gets exactly one initial response, a
\* private rejection or a private deferral, and the rest of the protocol follows
\* in order.
C15_Protocol ==
    \A i \in DOMAIN pc :
        /\ pc[i] # "invoked" =>
               /\ Len(responses[i]) >= 1
               /\ Vias(i)[1] \in {"response.send_message", "response.defer"}
        /\ ResponseOrder(i)

\* The part of C15 the code keeps: the order of the responses and of the send,
\* and no retry.  What it does not keep is the initial response itself when
\* parse_role_mentions raises.
C15_Order ==
    [](\A i \in DOMAIN pc : ResponseOrder(i)) /\ [][\A i \in DOMAIN pc : Final(i)]_vars

\* A handler has raised before its first await: the requester has no response.
C15_NoResponse ==
    \E i \in DOMAIN pc :
        /\ pc[i] = "raised"
        /\ responses[i] = <<>>
        /\ req[i].mention_roles = "^"

Contains(s, sub) ==
    \E j \in 1..(Len(s) - Len(sub) + 1) : SubSeq(s, j, j + Len(sub) - 1) = sub

HasEveryoneToken(msg) == msg.content # None /\ Contains(msg.content, "@everyone")

C18_IdMentionForms ==
    \A k \in 1..Len(outbox) :
        LET r == req[outbox[k].by]
            msg == outbox[k].msg
        IN  /\ guild = HomeGuild => (HasEveryoneToken(msg) =>
                                       r.mention_everyone /\ Privileged(r.user))
            /\ msg.content # None =>
                   (msg.allowed_mentions[1].everyone =>
                        r.mention_everyone /\ Privileged(r.user))

\* A Support-only requester who did not ask for everyone has had @everyone put
\* into the text through the role input.
C18_Injected ==
    \E k \in 1..Len(outbox) :
        /\ SupportOnly(req[outbox[k].by].user)
        /\ ~req[outbox[k].by].mention_everyone
        /\ req[outbox[k].by].mention_roles = "Support, @everyone"
        /\ outbox[k].msg.content = "<@&9> @everyone"

-----------------------------------------------------------------------------
(* Properties of the text normalizer *)

\* C5: _multiline is idempotent: applied to its own result it returns that
\* result, for every string and for None.
C5_Idempotent ==
    fn = "_multiline" =>
        \A k \in 1..(Len(rets) - 1) : rets[k + 1] = rets[k]

\* A string that normalization changes has been normalized twice.
C5_Witness ==
    /\ fn = "_multiline"
    /\ args = " \\r\\nn"
    /\ rets = <<"n", "n">>

\* One left-to-right pass over s that turns each literal \r\n, \n and \r into one
\* line break, each literal \t into one tab, and copies every other character.
RECURSIVE Unescaped(_)
Unescaped(s) ==
    LET n == Len(s)
    IN  IF n = 0 THEN ""
        ELSE IF n >= 4 /\ SubSeq(s, 1, 4) = "\\r\\n" THEN "\n" \o Unescaped(SubSeq(s, 5, n))
        ELSE IF n >= 2 /\ SubSeq(s, 1, 2) \in {"\\n", "\\r"}
             THEN "\n" \o Unescaped(SubSeq(s, 3, n))
        ELSE IF n >= 2 /\ SubSeq(s, 1, 2) = "\\t" THEN "\t" \o Unescaped(SubSeq(s, 3, n))
        ELSE char(s, 1) \o Unescaped(SubSeq(s, 2, n))

LineBreaks(s) == Cardinality({j \in 1..Len(s) : char(s, j) = "\n"})

\* C6: _multiline returns None for None, and otherwise the input with every
\* literal \r\n, \n and \r replaced by one line break and every literal \t by one
\* tab, stripped of outer whitespace; a literal \r\n between two other characters
\* yields exactly one line break.
C6_Unescapes ==
    fn = "_multiline" /\ rets # <<>> =>
        /\ args = None => rets[1] = None
        /\ args # None =>
               /\ rets[1] # None
               /\ rets[1] = strip(Unescaped(args))
        /\ args \in {"n\\r\\nn", "r\\r\\nt"} => Len(rets[1]) = 3 /\ LineBreaks(rets[1]) = 1

\* A literal \r\n between two letters has become a single line break.
C6_Witness ==
    /\ fn = "_multiline"
    /\ args = "n\\r\\nn"
    /\ rets # <<>>
    /\ rets[1] = "n\nn"

-----------------------------------------------------------------------------
(* Properties of the mention helpers *)

\* The non-empty trimmed tokens of a comma-separated role input, in order.
Tokens(role_input) ==
    IF role_input \in {None, ""} THEN <<>>
    ELSE LET raw == split(role_input, ",")
         IN  SelectSeq([k \in 1..Len(raw) |-> strip(raw[k])], LAMBDA t : t # "")

AllDecimal(t) == \A j \in 1..Len(t) : char(t, j) \in {"0", "1", "2", "3", "4", "5", "6", "7", "8", "9"}

\* Role r is matched by token t: by id, or by exact name.
Matches(r, t) == r.name = t \/ (AllDecimal(t) /\ r.id = int_value(t))

\* What token t alone resolves to.
ResolvedAlone(t) == parse_role_mentions(guild, t)

RECURSIVE Flatten(_)
Flatten(seqs) == IF seqs = <<>> THEN <<>> ELSE Head(seqs) \o Flatten(Tail(seqs))

\* C7: parse_role_mentions returns, without raising, the roles matched by the
\* tokens of its input in input order: a token some role matches contributes one
\* role that it matches, a token no role matches contributes nothing, and what a
\* token contributes does not depend on the other tokens.
C7_ResolvesTokens ==
    fn = "parse_role_mentions" /\ rets # <<>> =>
        LET tokens == Tokens(args.role_input)
        IN  /\ rets[1].exc = None
            /\ rets[1].value =
                   Flatten([k \in 1..Len(tokens) |-> ResolvedAlone(tokens[k]).value])
            /\ \A k \in 1..Len(tokens) :
                   LET alone == ResolvedAlone(tokens[k]).value
                       matched == \E j \in 1..Len(guild.roles) :
                                      Matches(guild.roles[j], tokens[k])
                   IN  IF matched THEN Len(alone) = 1 /\ Matches(alone[1], tokens[k])
                       ELSE alone = <<>>

\* C7 on the inputs whose all-digit tokens are decimal: the code keeps it there.
C7_DecimalTokens ==
    fn = "parse_role_mentions" /\ rets # <<>> =>
        LET tokens == Tokens(args.role_input)
        IN  (\A k \in 1..Len(tokens) : ~isdigit(tokens[k]) \/ AllDecimal(tokens[k])) =>
                C7_ResolvesTokens

\* C8: the mention text is @everyone, present iff everyone was requested,
\* followed by the mention of each resolved role in resolution order, joined by
\* single spaces; it is empty when everyone was not requested and no role resolved.
C8_MentionText ==
    fn = "parse_role_mentions" /\ Len(rets) = 2 =>
        LET roles == rets[1].value
            text == rets[2]
            pieces == IF text = "" THEN <<>> ELSE split(text, " ")
        IN  /\ Len(pieces) = Len(roles) + (IF args.mention_everyone THEN 1 ELSE 0)
            /\ args.mention_everyone => pieces[1] = "@everyone"
            /\ ~args.mention_everyone => \A k \in 1..Len(pieces) : pieces[k] # "@everyone"
            /\ \A k \in 1..Len(roles) :
                   pieces[k + (IF args.mention_everyone THEN 1 ELSE 0)] = roles[k].mention
            /\ (~args.mention_everyone /\ roles = <<>>) <=> text = ""

\* @everyone and two resolved roles have been joined.
C8_Witness ==
    /\ fn = "parse_role_mentions"
    /\ args = [role_input |-> "11, a", mention_everyone |-> TRUE]
    /\ Len(rets) = 2
    /\ rets[2] = "@everyone <@&3> <@&1>"

\* The first role of the guild that satisfies P, as a list of at most one role.
FirstRole(P(_)) ==
    LET hits == {j \in 1..Len(guild.roles) : P(guild.roles[j])}
    IN  IF hits = {} THEN <<>>
        ELSE <<guild.roles[CHOOSE j \in hits : \A m \in hits : j <= m]>>

\* Id first, and only for a token of decimal digits; then the exact name.
Lookup(t) ==
    LET by_id == IF AllDecimal(t) THEN FirstRole(LAMBDA r : r.id = int_value(t))
                                  ELSE <<>>
    IN  IF by_id # <<>> THEN by_id ELSE FirstRole(LAMBDA r : r.name = t)

Distinct(roles) ==
    \A j, k \in 1..Len(roles) : roles[j].id = roles[k].id => j = k

\* C17: the resolved roles hold each guild role at most once, and so does the
\* mention text built from them.
C17_RolesUnique ==
    fn = "parse_role_mentions" /\ rets # <<>> /\ rets[1].exc = None =>
        /\ Distinct(rets[1].value)
        /\ Len(rets) = 2 =>
               LET pieces == IF rets[2] = "" THEN <<>> ELSE split(rets[2], " ")
               IN  \A j, k \in 1..Len(pieces) : pieces[j] = pieces[k] => j = k

\* What the code does instead: one role per matched token, repeated as often as
\* tokens match it.
C17_OnePerToken ==
    fn = "parse_role_mentions" /\ rets # <<>> /\ rets[1].exc = None =>
        LET tokens == Tokens(args.role_input)
            matched == SelectSeq(tokens, LAMBDA t : Lookup(t) # <<>>)
        IN  Len(rets[1].value) = Len(matched)

\* A role referenced once by id and once by name has been resolved twice and is
\* mentioned twice.
C17_Repeated ==
    /\ fn = "parse_role_mentions"
    /\ args.role_input = "1,a"
    /\ Len(rets) = 2
    /\ Len(rets[1].value) = 2
    /\ rets[1].value[1] = rets[1].value[2]
    /\ rets[2] \in {"<@&1> <@&1>", "@everyone <@&1> <@&1>"}

-----------------------------------------------------------------------------
(* Properties of the button helpers *)

\* What the handler was given for a field of slot n, None when it is not given.
Given(kwargs, n, field) ==
    LET key == "button" \o char("123", n) \o "_" \o field
    IN  IF key \in DOMAIN kwargs THEN kwargs[key] ELSE None

Labelled(kwargs) == {n \in 1..3 : Given(kwargs, n, "label") \notin {None, ""}}

\* The slot the k-th button comes from: the k-th labelled slot.
SlotOf(kwargs, k) ==
    CHOOSE n \in Labelled(kwargs) :
        Cardinality({m \in Labelled(kwargs) : m <= n}) = k

\* C9: the buttons are those of the slots that have a non-empty label, one per
\* such slot and in slot order, each built from its own slot's label, url and
\* emoji; a slot without a label gives no button whatever else it sets; there are
\* at most 3 buttons.
C9_SlotsIndependent ==
    fn = "parse_button_params" /\ rets # <<>> =>
        LET buttons == rets[1]
        IN  /\ Len(buttons) = Cardinality(Labelled(args))
            /\ Len(buttons) <= 3
            /\ \A k \in 1..Len(buttons) :
                   LET n == SlotOf(args, k)
                   IN  /\ buttons[k].label = Given(args, n, "label")
                       /\ buttons[k].emoji = Given(args, n, "emoji")
                       /\ buttons[k].url =
                              (IF Given(args, n, "url") = "" THEN None
                               ELSE Given(args, n, "url"))

\* Slot 2 sets only a url and gives no button; slots 1 and 3 each give theirs.
C9_Witness ==
    /\ fn = "parse_button_params"
    /\ rets # <<>>
    /\ Given(args, 1, "label") = "Go"
    /\ Given(args, 2, "label") = None
    /\ Given(args, 2, "url") = "https://a.b"
    /\ Given(args, 3, "label") = "Buy Now"
    /\ Len(rets[1]) = 2
    /\ rets[1][1].label = "Go"
    /\ rets[1][2].label = "Buy Now"

\* The style each style token of the inputs names, compared case-insensitively;
\* secondary for a token that names none.
StyleNamed ==
    [x \in {"secondary", "SUCCESS", "fancy", "link", "Primary", "danger", "success",
            "dAnGeR", "primary", "secondary "} |->
        CASE x \in {"primary", "Primary"} -> ButtonStyle.primary
          [] x \in {"success", "SUCCESS"} -> ButtonStyle.success
          [] x \in {"danger", "dAnGeR"} -> ButtonStyle.danger
          [] x = "link" -> ButtonStyle.link
          [] OTHER -> ButtonStyle.secondary]

\* C10: a button with a url has style link whatever its style token; a button
\* without one has the style its token names case-insensitively, and secondary
\* when the token is missing or names no style.
C10_EffectiveStyle ==
    fn = "parse_button_params" /\ rets # <<>> =>
        \A k \in 1..Len(rets[1]) :
            LET n == SlotOf(args, k)
                token == Given(args, n, "style")
            IN  rets[1][k].style =
                    IF Given(args, n, "url") \notin {None, ""} THEN ButtonStyle.link
                    ELSE IF token = None THEN ButtonStyle.secondary
                    ELSE StyleNamed[token]

\* A url has forced link over the token SUCCESS, and SUCCESS alone gave success.
C10_Witness ==
    /\ fn = "parse_button_params"
    /\ rets # <<>>
    /\ Len(rets[1]) = 3
    /\ Given(args, 1, "style") = "SUCCESS" /\ Given(args, 1, "url") = "https://a.b"
    /\ rets[1][1].style = ButtonStyle.link
    /\ Given(args, 2, "style") = "SUCCESS" /\ Given(args, 2, "url") = None
    /\ rets[1][2].style = ButtonStyle.success
    /\ Given(args, 3, "style") = "fancy" /\ Given(args, 3, "url") = None
    /\ rets[1][3].style = ButtonStyle.secondary

\* C19: every button has style link if and only if it has a url, and a custom
\* id if and only if it has no url.
C19_LinkWellFormed ==
    fn = "parse_button_params" /\ rets # <<>> =>
        \A k \in 1..Len(rets[1]) :
            /\ rets[1][k].style = ButtonStyle.link <=> rets[1][k].url # None
            /\ rets[1][k].custom_id # None <=> rets[1][k].url = None

\* The part of C19 the code keeps: custom id iff no url, and style link for every
\* button with a url.  A button without a url has style link exactly when its
\* style token names link.
C19_CustomIdOrUrl ==
    fn = "parse_button_params" /\ rets # <<>> =>
        \A k \in 1..Len(rets[1]) :
            /\ rets[1][k].custom_id # None <=> rets[1][k].url = None
            /\ rets[1][k].url # None => rets[1][k].style = ButtonStyle.link
            /\ rets[1][k].url = None =>
                   (rets[1][k].style = ButtonStyle.link
                        <=> Given(args, SlotOf(args, k), "style") = "link")

\* The token link without a url has given a link-style button with a custom id.
C19_LinkWithoutUrl ==
    /\ fn = "parse_button_params"
    /\ rets # <<>>
    /\ Given(args, 1, "label") = "Go"
    /\ Given(args, 1, "url") = None
    /\ Given(args, 1, "style") = "link"
    /\ rets[1][1] = [label |-> "Go", url |-> None, emoji |-> None,
                     style |-> ButtonStyle.link, custom_id |-> "btn_go"]

\* C20: the custom ids of the buttons of one message that have one are pairwise
\* distinct.
C20_CustomIdsDistinct ==
    fn = "parse_button_params" /\ rets # <<>> =>
        \A j, k \in 1..Len(rets[1]) :
            (/\ rets[1][j].custom_id # None
             /\ rets[1][j].custom_id = rets[1][k].custom_id) => j = k

\* What the code does instead: the custom id is a function of the label alone,
\* so two buttons without url share it exactly when their labels agree up to
\* letter case and space versus underscore.
C20_IdFromLabel ==
    fn = "parse_button_params" /\ rets # <<>> =>
        \A j, k \in 1..Len(rets[1]) :
            rets[1][j].url = None /\ rets[1][k].url = None =>
                (rets[1][j].custom_id = rets[1][k].custom_id
                    <=> replace(lower(rets[1][j].label), " ", "_")
                            = replace(lower(rets[1][k].label), " ", "_"))

\* "Buy Now" and "buy_now" have been given the same custom id.
C20_SameId ==
    /\ fn = "parse_button_params"
    /\ rets # <<>>
    /\ Len(rets[1]) = 2
    /\ rets[1][1].label = "Buy Now"
    /\ rets[1][2].label = "buy_now"
    /\ rets[1][1].custom_id = "btn_buy_now"
    /\ rets[1][2].custom_id = "btn_buy_now"

====
